---- MODULE Spec2Model ----
(***************************************************************************)
(* The WAL blob subsystem of db/log_writer.cc: log::Writer (AddRecord,     *)
(* EmitPhysicalRecord), WalBlobReader (GetBlob, Blob::ShrinkVal, the CF    *)
(* directory lookup), WalBlobIterator and WalIndexWriter.                  *)
(*                                                                         *)
(* Files are sequences of bytes (0..255).  The block size is scaled down   *)
(* (kBlockSize below; 32768 in the program) so that records spanning two,  *)
(* three and four blocks are enumerable; every size in the model is        *)
(* computed from kBlockSize and kHeaderSize exactly as the code does.      *)
(* Checksums are position-sensitive folds of reduced width (TLC integers   *)
(* are 32 bit): like the CRCs they stand for, they change whenever a       *)
(* single byte of their input changes.                                     *)
(***************************************************************************)
EXTENDS Integers, Sequences, FiniteSets, TLC

\* ------------------------------------------------------------------ bounds
kBlockSize == 16      \* block size of the model (log_format.h: 32768)
MaxLen     == 20      \* longest payload handed to AddRecord
MaxRecords == 2       \* AddRecord calls per behaviour
MaxCalls   == 2       \* GetBlob calls per behaviour
MaxCfs     == 2       \* WriteCF calls per behaviour
MaxSeeks   == 2       \* SeekToFirst calls per iterator
MaxFailAt  == 6       \* the latest file call of an AddRecord that may fail
MaxFailures == 1      \* failing AddRecord calls per behaviour

\* --------------------------------------------------------------- constants
kHeaderSize == 7      \* checksum (4) + length (2) + type (1)
kZeroType   == 0
kFullType   == 1
kFirstType  == 2
kMiddleType == 3
kLastType   == 4
kRecyclableFullType == 5

kUnset == -1          \* uint64_t(-1): wal_offset_of_wb_content_ not yet set
kNoWt  == -2          \* AddRecord called with wt == nullptr

VARIABLES
  dest_,            \* WritableFileWriter: [data: bytes appended, synced: bytes flushed to the file]
  block_offset_,    \* Writer::block_offset_
  block_counts_,    \* Writer::block_counts_
  num_entries_,     \* Writer::num_entries_
  manual_flush_,    \* Writer::manual_flush_
  recs,             \* history: one entry per AddRecord call
  blob_cache_,      \* the blob cache: its entries, in the order of their insertion
  bufs,             \* the LazyBuffers GetBlob has handed out
  calls,            \* history: one entry per GetBlob call
  reads,            \* number of src_->Read calls on the log file
  rstate,           \* "running", or "aborted" once an assertion failed or the process crashed
  corrupted,        \* file offset of the byte changed on disk, -1 when none was
  index_file_,      \* WalIndexWriter::index_file_: the bytes of the index file
  cf_indexes_,      \* WalIndexWriter::cf_indexes_
  written,          \* history: one entry per WriteCF / WriteFooter call
  index_file_data_, \* WalBlobReader::index_file_data_: the mapped index file
  it,               \* the WalBlobIterator NewIteratorWithCF returned last
  threads,          \* the threads inside GetBlob: where each one is and what it holds
  dtor_ops          \* the file calls Writer::~Writer made; << >> while the writer lives

wvars == <<dest_, block_offset_, block_counts_, num_entries_, manual_flush_, recs>>

\* ---------------------------------------------------------------- helpers
Min(a, b) == IF a < b THEN a ELSE b

Zeros(n) == [i \in 1..n |-> 0]

\* bytes [from, from + n) of a byte sequence, offsets counted from 0;
\* short when the sequence ends first (a positional read at end of file)
Bytes(s, from, n) ==
  LET hi == Min(Len(s), from + n)
  IN  IF from >= hi THEN << >> ELSE [i \in 1..(hi - from) |-> s[from + i]]

\* EncodeFixed32 / DecodeFixed32: little-endian, 4 bytes
EncodeFixed32(v) ==
  << v % 256, (v \div 256) % 256, (v \div 65536) % 256, (v \div 16777216) % 256 >>

DecodeFixed32(b) == b[1] + 256 * b[2] + 65536 * b[3] + 16777216 * b[4]

\* the payload the engine hands to the k-th AddRecord call: len bytes, all
\* non-zero, no two positions of one payload alike
PayloadOf(k, len) == [i \in 1..len |-> ((k * 41 + i * 3) % 255) + 1]

\* ------------------------------------------------------------- checksums
\* the checksum h extended by the bytes data[lo..hi], one after the other;
\* left, bound over a one-element set, is the value after the first half
RECURSIVE CrcRange(_, _, _, _, _)
CrcRange(h, mult, data, lo, hi) ==
  IF lo > hi THEN h
  ELSE IF lo = hi THEN (h * mult + data[lo] + 1) % 65536
  ELSE LET mid == (lo + hi) \div 2
       IN  CHOOSE r \in {CrcRange(left, mult, data, mid + 1, hi) :
                           left \in {CrcRange(h, mult, data, lo, mid)}} : TRUE

CrcFold(h, mult, data) ==
  CHOOSE r \in {CrcRange(h0, mult, d, 1, Len(d)) : h0 \in {h}, d \in {data}} : TRUE

\* crc32c::Extend(crc, data, n) and crc32c::Value(data, n)
Crc32cExtend(crc, data) == CrcFold(crc, 37, data)
Crc32cValue(data) == Crc32cExtend(0, data)

\* crc32c::Mask / Unmask: rotate right by 15 bits and add a constant
\* (0xa282ead8 at 32 bits, 60120 at the 16 bits of the model)
Crc32cMask(crc) ==
  (((crc \div 32768) + (crc % 32768) * 2) + 60120) % 65536
Crc32cUnmask(m) ==
  LET rot == (m + 65536 - 60120) % 65536
  IN  (rot \div 2) + (rot % 2) * 32768

\* terark::Crc16c_update(0, data, n)
Crc16c(data) == CrcFold(0, 31, data)

\* ------------------------------------------------------------ log_format.h
\* GetFirstEntryPhysicalOffset(file_size, header_size, avail): the record
\* starts in the current block when avail >= header_size and in the next
\* block otherwise; the payload begins header_size bytes into the record.
GetFirstEntryPhysicalOffset(file_size, header_size, avail) ==
  IF avail >= header_size
    THEN file_size + header_size
    ELSE (file_size \div kBlockSize + 1) * kBlockSize + header_size

\* GetPhysicalLength(logical_length, offset, header_size): the bytes the
\* fragmented form of a record occupies from its first payload byte on
GetPhysicalLength(length, offset, header_size) ==
  LET avail_first == kBlockSize - (offset % kBlockSize)
      rest        == length - avail_first
      per_block   == kBlockSize - header_size
      full        == rest \div per_block
      tail        == rest % per_block
  IN  IF length <= avail_first THEN length
      ELSE avail_first + full * kBlockSize
             + (IF tail = 0 THEN 0 ELSE header_size + tail)

\* ---------------------------------------------------- WritableFileWriter
\* Append and Flush of the destination file; ok = FALSE is a failing call,
\* which leaves the file as it was
FileAppend(d, bytes, ok) == IF ok THEN [d EXCEPT !.data = d.data \o bytes] ELSE d

FileFlush(d, ok) ==
  IF ok THEN [d EXCEPT !.synced = Len(d.data)] ELSE d

GetFileSize(d) == Len(d.data)

\* ------------------------------------------------------------ log::Writer
\* The state AddRecord works on: the writer's fields, the arguments it
\* consumes (ptr = bytes of the slice already emitted, wt = the handle's
\* wal_offset_of_wb_content_) and, as history, the fragments it emitted and
\* the number of file calls it made (the failAt-th one fails; 0 = none).
\* type_crc_[t] = crc32c::Value(&t, 1)
type_crc_(t) == Crc32cValue(<<t>>)

\* "const size_t avail = kBlockSize - block_offset_ - header_size"
Avail_ForgetsHeader(block_offset, header_size) == kBlockSize - block_offset
Avail(block_offset, header_size) == kBlockSize - block_offset - header_size

\* the fragment's type from begin and end
RecordTypeOf_EndFirst(begin, end) ==
  IF end THEN kLastType ELSE IF begin THEN kFirstType ELSE kMiddleType
RecordTypeOf(begin, end) ==
  IF begin /\ end THEN kFullType
  ELSE IF begin THEN kFirstType
  ELSE IF end THEN kLastType
  ELSE kMiddleType

\* "block_offset_ += header_size + n"
AdvanceBlockOffset_PayloadOnly(block_offset, header_size, n) == block_offset + n
AdvanceBlockOffset(block_offset, header_size, n) == block_offset + header_size + n

\* the header EmitPhysicalRecord formats for type t and payload data
HeaderOf(t, data) ==
  LET n   == Len(data)
      crc == Crc32cMask(Crc32cExtend(type_crc_(t), data))
  IN  EncodeFixed32(crc) \o << n % 256, n \div 256, t >>

\* "if (!manual_flush_) s = dest_->Flush()" after two good appends
FlushesAfterAppend_Never(manual_flush) == FALSE
FlushesAfterAppend(manual_flush) == ~manual_flush

EmitPhysicalRecord(w, t, data, failAt) ==
  LET n        == Len(data)
      ok1      == (w.ios + 1 # failAt)
      d1       == FileAppend(w.dest, HeaderOf(t, data), ok1)
      ok2      == ok1 /\ (w.ios + 2 # failAt)
      d2       == IF ok1 THEN FileAppend(d1, data, ok2) ELSE d1
      doFlush  == ok2 /\ FlushesAfterAppend(w.manual_flush)
      ok3      == ok2 /\ (doFlush => w.ios + 3 # failAt)
      d3       == IF doFlush THEN FileFlush(d2, ok3) ELSE d2
      made     == IF ~ok1 THEN 1 ELSE IF ~ok2 \/ ~doFlush THEN 2 ELSE 3
      ops      == << [op |-> "header", ok |-> ok1, n |-> kHeaderSize] >>
                  \o (IF ok1 THEN << [op |-> "payload", ok |-> ok2, n |-> n] >>
                      ELSE << >>)
                  \o (IF doFlush THEN << [op |-> "flush", ok |-> ok3, n |-> 0] >>
                      ELSE << >>)
  IN  [w EXCEPT !.dest = d3,
                !.ios = w.ios + made,
                !.ops = w.ops \o ops,
                !.s = IF ok3 THEN "ok" ELSE "ioerror",
                !.frags = Append(w.frags,
                            [type |-> t, pos |-> GetFileSize(w.dest), n |-> n,
                             block_offset |-> w.block_offset]),
                !.block_offset = AdvanceBlockOffset(w.block_offset, kHeaderSize, n)]

\* "while (s.ok() && left > 0)"
LoopContinues_IgnoresStatus(s, left) == left > 0
LoopContinues(s, left) == s = "ok" /\ left > 0

\* one pass of the do-while loop of AddRecord, and the passes after it.  The
\* status "assert" is the failed assertion of lines 128-129.
RECURSIVE AddRecordLoop(_, _, _)
AddRecordLoop(w, slice, failAt) ==
  LET header_size == kHeaderSize
      left        == Len(slice) - w.ptr
      leftover    == kBlockSize - w.block_offset
      switch      == leftover < header_size
      pad         == switch /\ leftover > 0
      padOk       == ~pad \/ (w.ios + 1 # failAt)
      \* after "Switch to a new block"
      w1 == IF ~switch THEN w
            ELSE [w EXCEPT !.dest = IF pad THEN FileAppend(w.dest, Zeros(leftover), padOk)
                                    ELSE w.dest,
                           !.ios = IF pad THEN w.ios + 1 ELSE w.ios,
                           !.ops = IF pad
                                     THEN Append(w.ops, [op |-> "pad", ok |-> TRUE,
                                                         n |-> leftover])
                                     ELSE w.ops,
                           !.block_offset = 0,
                           !.block_counts = w.block_counts + 1]
      avail           == Avail(w1.block_offset, header_size)
      fragment_length == IF left < avail THEN left ELSE avail
      end             == (left = fragment_length)
      type            == RecordTypeOf(w.begin, end)
      sizeOk == GetFileSize(w1.dest) = w1.block_counts * kBlockSize + w1.block_offset
      w2 == IF w1.wt = kUnset
              THEN [w1 EXCEPT !.wt = GetFirstEntryPhysicalOffset(
                                       GetFileSize(w1.dest), header_size, avail)]
              ELSE w1
      w3 == EmitPhysicalRecord(w2, type, Bytes(slice, w.ptr, fragment_length), failAt)
      w4 == [w3 EXCEPT !.ptr = w.ptr + fragment_length, !.begin = FALSE]
  IN  IF ~padOk
        THEN [w EXCEPT !.ios = w.ios + 1,
                       !.ops = Append(w.ops, [op |-> "pad", ok |-> FALSE,
                                              n |-> leftover]),
                       !.s = "ioerror"]                          \* break
      ELSE IF w1.wt = kUnset /\ ~sizeOk
        THEN [w1 EXCEPT !.s = "assert"]
      ELSE IF LoopContinues(w4.s, Len(slice) - w4.ptr)
        THEN AddRecordLoop(w4, slice, failAt)
        ELSE w4

\* Writer::AddRecord(slice, num_entries, wt) on the writer wr = [dest,
\* block_offset, block_counts, manual_flush]: the loop run to its end
AddRecordFrom(wr, slice, wt, failAt) ==
  AddRecordLoop([dest |-> wr.dest, block_offset |-> wr.block_offset,
                 block_counts |-> wr.block_counts, manual_flush |-> wr.manual_flush,
                 ptr |-> 0, begin |-> TRUE, wt |-> wt, frags |-> << >>,
                 ios |-> 0, ops |-> << >>, s |-> "ok"],
                slice, failAt)

\* the history entry of a call: its payload, the offset it recorded, the
\* fragments it emitted, the file calls it made, the file size and the
\* counters it started from and ended with, and its status
RecOf(wr, slice, r) ==
  [payload |-> slice, wt |-> r.wt, frags |-> r.frags,
   start |-> GetFileSize(wr.dest), s |-> r.s,
   ops |-> r.ops, size |-> GetFileSize(r.dest), synced |-> r.dest.synced,
   block_offset |-> r.block_offset, block_counts |-> r.block_counts,
   start_offset |-> wr.block_offset, manual_flush |-> wr.manual_flush]

ThisWriter ==
  [dest |-> dest_, block_offset |-> block_offset_,
   block_counts |-> block_counts_, manual_flush |-> manual_flush_]

AddRecordDo(slice, entries, wt, failAt) ==
  LET r == AddRecordFrom(ThisWriter, slice, wt, failAt)
  IN  /\ dest_' = r.dest
      /\ block_offset_' = r.block_offset
      /\ block_counts_' = r.block_counts
      /\ num_entries_' = num_entries_ + entries
      /\ recs' = Append(recs, RecOf(ThisWriter, slice, r))
      /\ UNCHANGED manual_flush_

\* AddRecord on a file whose calls succeed
AddRecord ==
  /\ Len(recs) < MaxRecords
  /\ \E len \in 0..MaxLen, wt \in {kUnset, kNoWt} :
       AddRecordDo(PayloadOf(Len(recs) + 1, len), 1, wt, 0)

\* Writer::WriteBuffer: flush the destination file
WriteBuffer ==
  /\ dest_' = FileFlush(dest_, TRUE)
  /\ UNCHANGED <<block_offset_, block_counts_, num_entries_, manual_flush_, recs>>

\* Writer::Writer: an empty file, block_offset_ = 0, block_counts_ = 0
WriterInit ==
  /\ dest_ = [data |-> << >>, synced |-> 0]
  /\ block_offset_ = 0
  /\ block_counts_ = 0
  /\ num_entries_ = 0
  /\ manual_flush_ \in BOOLEAN
  /\ recs = << >>

\* ------------------------------------------------------- DefaultLogHandle
\* The handle the engine stores for a record whose payload begins at offset:
\* (offset, length, head_crc, tail_crc), the CRC16s taken over the first
\* head_size and the last tail_size bytes of the payload.
MakeHandle(offset, payload) ==
  LET length    == Len(payload)
      spans     == GetPhysicalLength(length, offset, kHeaderSize) > length
      head_size == IF spans THEN kBlockSize - (offset % kBlockSize) ELSE length
      tail_size == IF spans THEN (length - head_size) % (kBlockSize - kHeaderSize)
                   ELSE 0
  IN  [offset   |-> offset,
       length   |-> length,
       head_crc |-> Crc16c(Bytes(payload, 0, head_size)),
       tail_crc |-> IF tail_size = 0 THEN 0
                    ELSE Crc16c(Bytes(payload, length - tail_size, tail_size))]

\* ------------------------------------------------------------------- Blob
\* Blob::ShrinkVal(head_size, record_header_size) on the buffer buf: the
\* loop from cur_offset with remain_bytes left.  cur_size - record_header_size
\* is a size_t: below zero it wraps to about 2^64 and the memmove runs off
\* the buffer, which ends the process ("crash").
RECURSIVE ShrinkLoop(_, _, _, _)
ShrinkLoop(buf, cur_offset, remain_bytes, record_header_size) ==
  LET kBlockAvailSize == kBlockSize - record_header_size
      cur_size    == IF remain_bytes > kBlockAvailSize THEN kBlockAvailSize
                     ELSE remain_bytes
      actual_data == cur_offset + record_header_size
      actual_size == cur_size - record_header_size
      moved == [i \in 1..Len(buf) |->
                  IF i > cur_offset /\ i <= cur_offset + actual_size
                    THEN buf[i + record_header_size] ELSE buf[i]]
  IN  IF remain_bytes <= 0
        THEN [status |-> "ok", slice |-> Bytes(buf, 0, cur_offset)]
      ELSE IF actual_size < 0
        THEN [status |-> "crash", slice |-> << >>]
      ELSE ShrinkLoop(moved, cur_offset + actual_size, remain_bytes - cur_size,
                      record_header_size)

ShrinkVal(buf, head_size, record_header_size) ==
  ShrinkLoop(buf, head_size, Len(buf) - head_size, record_header_size)

\* ---------------------------------------------------------- WalBlobReader
\* head_size and tail_size as GetBlob computes them from the handle
HeadSizeOf(content) ==
  IF GetPhysicalLength(content.length, content.offset, kHeaderSize) > content.length
    THEN kBlockSize - (content.offset % kBlockSize)
    ELSE content.length

TailSizeOf(content) ==
  IF GetPhysicalLength(content.length, content.offset, kHeaderSize) > content.length
    THEN (content.length - HeadSizeOf(content)) % (kBlockSize - kHeaderSize)
    ELSE 0

\* "const char* tailer = blob->slice_.data() - tail_size", as an offset from
\* slice_.data(); header starts at offset head_size.  The comparison of the
\* two pointers comes out the same for every address of the buffer.
MiddleTailer(size, tail_size) == 0 - tail_size

\* the "check middletype crc" loop: the headers it visits, or the failure
RECURSIVE MiddleScan(_, _, _, _)
MiddleScan(slice, header, tailer, visited) ==
  IF ~(header <= tailer - kBlockSize)
    THEN [status |-> "ok", visited |-> visited]
  ELSE IF header + kHeaderSize > Len(slice)
    THEN [status |-> "crash", visited |-> visited]
  ELSE
    LET type   == slice[header + 7]
        length == slice[header + 5] + 256 * slice[header + 6]
        expected_crc == Crc32cUnmask(DecodeFixed32(Bytes(slice, header, 4)))
        actual_crc   == Crc32cValue(Bytes(slice, header + 6, length + kHeaderSize - 6))
    IN  IF type # kMiddleType \/ actual_crc # expected_crc
          THEN [status |-> "assert", visited |-> visited]
          ELSE MiddleScan(slice, header + kBlockSize, tailer, visited \cup {header})

\* GetBlob past the cache lookup: read the file, check, shrink.  The result
\* is the Blob to insert (status "ok"), a failed assertion or a crash.
GetBlobMiss(filedata, content) ==
  LET blob_physical_length ==
        GetPhysicalLength(content.length, content.offset, kHeaderSize)
      head_size == HeadSizeOf(content)
      tail_size == TailSizeOf(content)
      slice     == Bytes(filedata, content.offset, blob_physical_length)
      size      == Len(slice)
      headOk    == head_size = 0
                   \/ Crc16c(Bytes(slice, 0, head_size)) = content.head_crc
      tailOk    == tail_size = 0
                   \/ Crc16c(Bytes(slice, size - tail_size, tail_size)) = content.tail_crc
      middle    == MiddleScan(slice, head_size, MiddleTailer(size, tail_size), {})
      fail(st)  == [status |-> st, slice |-> << >>, visited |-> {}]
  IN  IF /\ blob_physical_length > content.length
         /\ (head_size = 0 \/ head_size = kBlockSize)
        THEN fail("assert")
      ELSE IF size = 0 \/ size # blob_physical_length THEN fail("assert")
      ELSE IF ~headOk \/ ~tailOk THEN fail("assert")
      ELSE IF middle.status # "ok" THEN fail(middle.status)
      ELSE IF head_size # content.length
        THEN LET b == ShrinkVal(slice, head_size, kHeaderSize)
             IN  [status |-> b.status, slice |-> b.slice, visited |-> middle.visited]
      ELSE [status |-> "ok", slice |-> slice, visited |-> middle.visited]

\* ------------------------------------------------------------------ Cache
\* The blob cache at its interface.  An entry is [key, value, refs, in_table,
\* evicted, freed]: refs counts the handles handed out and not yet released;
\* in_table says a Lookup can still find it; the deleter runs (freed) when the
\* entry is out of the table and its last handle is released.
CacheLookup(c, key) ==
  LET found == {i \in 1..Len(c) : c[i].in_table /\ c[i].key = key}
  IN  IF found = {} THEN 0 ELSE CHOOSE i \in found : TRUE

\* Lookup's hit: one more reference on entry id
CacheRef(c, id) == [c EXCEPT ![id].refs = c[id].refs + 1]

\* Insert(key, value, charge, deleter, &handle): the entry under key, if
\* any, leaves the table (and is freed if nobody holds it); the new entry is
\* in the table with the caller's handle on it
CacheInsert(c, key, value) ==
  Append([i \in 1..Len(c) |->
            IF c[i].in_table /\ c[i].key = key
              THEN [c[i] EXCEPT !.in_table = FALSE, !.freed = (c[i].refs = 0)]
              ELSE c[i]],
         [key |-> key, value |-> value, refs |-> 1, in_table |-> TRUE,
          evicted |-> FALSE, freed |-> FALSE])

\* Release(handle, force_erase): one reference fewer; force_erase takes the
\* entry out of the table when that was the last one
CacheRelease(c, id, force_erase) ==
  LET refs == c[id].refs - 1
      out  == ~c[id].in_table \/ (force_erase /\ refs = 0)
  IN  [c EXCEPT ![id].refs = refs,
                ![id].in_table = ~out,
                ![id].freed = (out /\ refs = 0)]

\* the cache makes room: an entry nobody holds leaves the table and is freed
CacheEvict(c, id) ==
  [c EXCEPT ![id].in_table = FALSE, ![id].evicted = TRUE, ![id].freed = TRUE]

\* ----------------------------------------------- WalBlobReader, continued
\* WalBlobReader::GenerateCacheUniqueId: the file's unique id, then the
\* handle's bytes
kFileUniqueId == "log"
GenerateCacheUniqueId(log_handle) ==
  << kFileUniqueId, log_handle.offset, log_handle.length,
     log_handle.head_crc, log_handle.tail_crc >>

\* the key GetBlob inserts the Blob under: blob_uid, the key it looked up
InsertKey_HandleOnly(blob_uid, log_handle) ==
  << log_handle.offset, log_handle.length, log_handle.head_crc, log_handle.tail_crc >>
InsertKey(blob_uid, log_handle) == blob_uid

\* release_cache runs Release(handle, false)
kReleaseForceErase == FALSE

\* what src_->Read sees: the bytes flushed to the log file
FileOnDisk == Bytes(dest_.data, 0, dest_.synced)

\* the handle of the k-th record written
HandleOfRec(k) == MakeHandle(recs[k].wt, recs[k].payload)

Readable == {k \in 1..Len(recs) : recs[k].wt >= 0 /\ recs[k].s = "ok"}

\* WalBlobReader::GetBlob(log_handle, lazy_blob) on the cache c: the status,
\* the slice lazy_blob is reset to, the cache after it, the entry whose
\* handle lazy_blob now holds, and whether the file was read
GetBlobOn(c, log_handle) ==
  LET blob_uid == GenerateCacheUniqueId(log_handle)
      id       == CacheLookup(c, blob_uid)
      miss(r)  == IF r.status = "ok"
                    THEN [status |-> "ok", slice |-> r.slice,
                          cache |-> CacheInsert(c, InsertKey(blob_uid, log_handle), r.slice),
                          entry |-> Len(c) + 1, hit |-> FALSE, visited |-> r.visited]
                    ELSE [status |-> r.status, slice |-> << >>, cache |-> c,
                          entry |-> 0, hit |-> FALSE, visited |-> {}]
  IN  IF id # 0
        THEN [status |-> "ok", slice |-> c[id].value, cache |-> CacheRef(c, id),
              entry |-> id, hit |-> TRUE, visited |-> {}]
      ELSE CHOOSE g \in {miss(r) : r \in {GetBlobMiss(FileOnDisk, log_handle)}} : TRUE

\* a GetBlob call with the handle of a written record, in one step
GetBlob ==
  /\ rstate = "running"
  /\ Len(calls) < MaxCalls
  /\ \E k \in Readable :
       \E g \in {GetBlobOn(blob_cache_, HandleOfRec(k))} :
           /\ blob_cache_' = g.cache
           /\ reads' = IF g.hit THEN reads ELSE reads + 1
           /\ rstate' = IF g.status = "ok" THEN rstate ELSE "aborted"
           /\ bufs' = IF g.status = "ok"
                        THEN Append(bufs, [k |-> k, entry |-> g.entry,
                                           slice |-> g.slice, live |-> TRUE])
                        ELSE bufs
           /\ calls' = Append(calls,
                [k |-> k, hit |-> g.hit, status |-> g.status, slice |-> g.slice,
                 entry |-> g.entry, visited |-> g.visited,
                 pinned |-> \E b \in 1..Len(bufs) : bufs[b].live /\ bufs[b].k = k])
  /\ UNCHANGED wvars

\* release_cache(c, h): "static_cast<Cache*>(c)->Release(h, false)"
ReleaseOnCleanup_Leak(c, entry) == c
ReleaseOnCleanup(c, entry) == CacheRelease(c, entry, kReleaseForceErase)

\* the caller drops a LazyBuffer: its Cleanable runs release_cache
Cleanup ==
  /\ rstate = "running"
  /\ \E b \in 1..Len(bufs) :
       /\ bufs[b].live
       /\ bufs' = [bufs EXCEPT ![b].live = FALSE]
       /\ blob_cache_' = ReleaseOnCleanup(blob_cache_, bufs[b].entry)
  /\ UNCHANGED <<calls, reads, rstate>>
  /\ UNCHANGED wvars

\* the cache, over its capacity, evicts an entry nobody holds
Evict ==
  /\ rstate = "running"
  /\ \E id \in 1..Len(blob_cache_) :
       /\ blob_cache_[id].in_table
       /\ blob_cache_[id].refs = 0
       /\ blob_cache_' = CacheEvict(blob_cache_, id)
  /\ UNCHANGED <<bufs, calls, reads, rstate>>
  /\ UNCHANGED wvars

\* the payload bytes of record r in the file: their absolute offsets
PayloadOffsets(r) ==
  UNION {{r.frags[i].pos + kHeaderSize + j : j \in 0..(r.frags[i].n - 1)} :
           i \in 1..Len(r.frags)}

\* one payload byte of a written record changes on disk
Corrupt ==
  /\ corrupted = -1
  /\ calls = << >>
  /\ \E k \in 1..Len(recs) : \E pos \in PayloadOffsets(recs[k]) :
       /\ corrupted' = pos
       /\ dest_' = [dest_ EXCEPT !.data[pos + 1] = (dest_.data[pos + 1] + 1) % 256]
  /\ UNCHANGED <<block_offset_, block_counts_, num_entries_, manual_flush_, recs>>
  /\ UNCHANGED <<blob_cache_, bufs, calls, reads, rstate>>

ReaderInit ==
  /\ blob_cache_ = << >>
  /\ bufs = << >>
  /\ calls = << >>
  /\ reads = 0
  /\ rstate = "running"
  /\ corrupted = -1

rvars == <<blob_cache_, bufs, calls, reads, rstate>>

\* --------------------------------------------------------- index entities
kDefaultLogHandleSize == 16     \* sizeof(DefaultLogHandle): 8 + 4 + 2 + 2
kWalEntrySize         == 40     \* sizeof(WalEntry): two handles and 8 bytes
kWalCfIndexSize       == 24     \* sizeof(WalCfIndex): 4 + 8 + 8 + 4
kWalIndexFooterSize   == 8      \* sizeof(WalIndexFooter): 4 + 4
kTypeValue == 1
kTypeMerge == 2

\* fixed-width little-endian integers
RECURSIVE EncodeFixed(_, _)
EncodeFixed(v, w) ==
  IF w = 0 THEN << >> ELSE << v % 256 >> \o EncodeFixed(v \div 256, w - 1)

RECURSIVE DecodeFixed(_)
DecodeFixed(b) == IF b = << >> THEN 0 ELSE b[1] + 256 * DecodeFixed(Tail(b))

EncodeHandle(h) ==
  EncodeFixed(h.offset, 8) \o EncodeFixed(h.length, 4)
    \o EncodeFixed(h.head_crc, 2) \o EncodeFixed(h.tail_crc, 2)

DecodeHandle(b) ==
  [offset   |-> DecodeFixed(Bytes(b, 0, 8)),
   length   |-> DecodeFixed(Bytes(b, 8, 4)),
   head_crc |-> DecodeFixed(Bytes(b, 12, 2)),
   tail_crc |-> DecodeFixed(Bytes(b, 14, 2))]

\* PackSequenceAndType / UnPackSequenceAndType
PackSequenceAndType(seq, type) == seq * 256 + type

\* WalEntry: key handle, value handle, packed sequence and type
EncodeWalEntry(t) ==
  EncodeHandle(t.key_handle) \o EncodeHandle(t.value_handle)
    \o EncodeFixed(PackSequenceAndType(t.seq, t.type), 8)

DecodeWalEntry(b) ==
  LET packed == DecodeFixed(Bytes(b, 2 * kDefaultLogHandleSize, 8))
  IN  [key_handle   |-> DecodeHandle(Bytes(b, 0, kDefaultLogHandleSize)),
       value_handle |-> DecodeHandle(Bytes(b, kDefaultLogHandleSize,
                                           kDefaultLogHandleSize)),
       seq  |-> packed \div 256,
       type |-> packed % 256]

\* WalCfIndex (id_, offset_, count_, crc32_) and WalIndexFooter (count_, crc32_)
EncodeCfIndex(wci) ==
  EncodeFixed(wci.id, 4) \o EncodeFixed(wci.offset, 8)
    \o EncodeFixed(wci.count, 8) \o EncodeFixed(wci.crc32, 4)

DecodeCfIndex(b) ==
  [id     |-> DecodeFixed(Bytes(b, 0, 4)),
   offset |-> DecodeFixed(Bytes(b, 4, 8)),
   count  |-> DecodeFixed(Bytes(b, 12, 8)),
   crc32  |-> DecodeFixed(Bytes(b, 20, 4))]

EncodeFooter(wif) == EncodeFixed(wif.count, 4) \o EncodeFixed(wif.crc32, 4)

\* --------------------------------------------------------- WalIndexWriter
RECURSIVE ConcatEntries(_, _)
ConcatEntries(entries, n) ==
  IF n = 0 THEN << >>
  ELSE ConcatEntries(entries, n - 1) \o EncodeWalEntry(entries[n])

\* "wci.offset_ = index_file_->GetFileSize()"
CfOffsetAtWrite_AfterAppend(size_before, size_after) == size_after
CfOffsetAtWrite(size_before, size_after) == size_before

\* WalIndexWriter::WriteCF(cf_id, sorted_entries); the failAt-th append
\* fails (0 = none) and the call returns its status at once
WriteCFDo(cf_id, sorted_entries, failAt) ==
  LET appended == IF failAt = 0 THEN Len(sorted_entries) ELSE failAt - 1
      bytes    == ConcatEntries(sorted_entries, appended)
      crc32    == Crc32cExtend(0, ConcatEntries(sorted_entries, Len(sorted_entries)))
      wci      == [id |-> cf_id,
                   offset |-> CfOffsetAtWrite(Len(index_file_),
                                              Len(index_file_) + Len(bytes)),
                   count |-> Len(sorted_entries), crc32 |-> crc32]
      status   == IF failAt = 0 THEN "ok" ELSE "ioerror"
  IN  /\ index_file_' = index_file_ \o bytes
      /\ cf_indexes_' = IF failAt = 0 THEN Append(cf_indexes_, wci) ELSE cf_indexes_
      /\ written' = Append(written,
           [op |-> "cf", cf_id |-> cf_id, entries |-> sorted_entries,
            size_before |-> Len(index_file_), status |-> status])

RECURSIVE ConcatCfIndexes(_, _)
ConcatCfIndexes(idx, n) ==
  IF n = 0 THEN << >> ELSE ConcatCfIndexes(idx, n - 1) \o EncodeCfIndex(idx[n])

\* WalIndexWriter::WriteFooter
WriteFooterDo(failAt) ==
  LET n        == Len(cf_indexes_)
      appended == IF failAt = 0 THEN n ELSE failAt - 1
      dirOk    == failAt = 0 \/ failAt > n
      crc32    == Crc32cExtend(0, ConcatCfIndexes(cf_indexes_, n))
      wif      == [count |-> n,
                   crc32 |-> Crc32cExtend(crc32, EncodeFixed(n, 4))]
      bytes    == ConcatCfIndexes(cf_indexes_, IF dirOk THEN n ELSE appended)
                    \o (IF failAt = 0 THEN EncodeFooter(wif) ELSE << >>)
  IN  /\ index_file_' = index_file_ \o bytes
      /\ written' = Append(written,
           [op |-> "footer", cf_id |-> 0, entries |-> << >>,
            size_before |-> Len(index_file_),
            status |-> IF failAt = 0 THEN "ok" ELSE "ioerror"])
      /\ UNCHANGED cf_indexes_

\* ------------------------------------------ WalBlobReader: the CF directory
\* where the directory of count entries begins in a mapped file of size bytes
DirectoryStart(size, count) == size - kWalIndexFooterSize - count * kWalCfIndexSize

\* the directory scan from entry i on: the last entry carrying cf_id wins
RECURSIVE ScanDirectory(_, _, _, _, _)
ScanDirectory(footer, count, i, cf_id, acc) ==
  IF i >= count THEN acc
  ELSE LET wci == DecodeCfIndex(Bytes(footer, i * kWalCfIndexSize, kWalCfIndexSize))
       IN  ScanDirectory(footer, count, i + 1, cf_id,
             IF wci.id = cf_id
               THEN [find |-> TRUE, cf_offset |-> wci.offset, cf_entries |-> wci.count]
               ELSE acc)

\* WalBlobReader::GetCFWalTupleOffsets(cf_id, &cf_offset, &cf_entries) on the
\* mapped bytes data.  A footer or a directory that lies before the start of
\* the mapping is read out of bounds ("crash").
GetCFWalTupleOffsets(data, cf_id) ==
  LET none == [find |-> FALSE, cf_offset |-> 0, cf_entries |-> 0]
  IN  IF Len(data) < kWalIndexFooterSize
        THEN [status |-> "crash", cf_offset |-> 0, cf_entries |-> 0, count |-> 0]
      ELSE
        LET count == DecodeFixed(Bytes(data, Len(data) - kWalIndexFooterSize, 4))
            start == DirectoryStart(Len(data), count)
        IN  IF start < 0
              THEN [status |-> "crash", cf_offset |-> 0, cf_entries |-> 0,
                    count |-> count]
            ELSE
              LET r == ScanDirectory(Bytes(data, start, count * kWalCfIndexSize),
                                     count, 0, cf_id, none)
              IN  [status |-> IF r.find \/ count = 0 THEN "ok" ELSE "assert",
                   cf_offset |-> r.cf_offset, cf_entries |-> r.cf_entries,
                   count |-> count]

\* ------------------------------------------------------- WalBlobIterator
ivars == <<index_file_, cf_indexes_, written, index_file_data_, it>>

kNoIterator == [state |-> "none", cf_id |-> 0, cf_offset |-> 0, cf_entries |-> 0,
                i_ |-> 0, last_key_ |-> << >>, iter_key_ |-> << >>,
                value_ |-> << >>, value_entry |-> 0, seeks |-> 0,
                yielded |-> << >>, compared |-> {}, failure |-> ""]

\* WalBlobIterator(reader, ioptions, cf_offset, cf_entries)
NewWalBlobIterator(cf_id, cf_offset, cf_entries) ==
  [kNoIterator EXCEPT !.state = "ok", !.cf_id = cf_id,
                      !.cf_offset = cf_offset, !.cf_entries = cf_entries]

\* Valid()
Valid(itr) == itr.i_ < itr.cf_entries

\* BytewiseComparator on user keys: -1, 0 or 1
RECURSIVE BytewiseCompare(_, _)
BytewiseCompare(a, b) ==
  IF a = << >> /\ b = << >> THEN 0
  ELSE IF a = << >> THEN -1
  ELSE IF b = << >> THEN 1
  ELSE IF a[1] < b[1] THEN -1
  ELSE IF a[1] > b[1] THEN 1
  ELSE BytewiseCompare(Tail(a), Tail(b))

\* InternalKeyComparator::Compare: user key ascending, then the packed
\* sequence and type descending
InternalCompare(akey, bkey) ==
  LET auser == Bytes(akey, 0, Len(akey) - 8)
      buser == Bytes(bkey, 0, Len(bkey) - 8)
      anum  == DecodeFixed(Bytes(akey, Len(akey) - 8, 8))
      bnum  == DecodeFixed(Bytes(bkey, Len(bkey) - 8, 8))
      r     == BytewiseCompare(auser, buser)
  IN  IF r # 0 THEN r
      ELSE IF anum > bnum THEN -1
      ELSE IF anum < bnum THEN 1
      ELSE 0

\* IterKey::SetInternalKey(user_key, seq, type)
SetInternalKey(user_key, seq, type) ==
  user_key \o EncodeFixed(PackSequenceAndType(seq, type), 8)

\* WalBlobIterator::FetchKV at position itr.i_ on the cache c
FetchKV(itr, c) ==
  LET cur_kv_base == itr.cf_offset + itr.i_ * kWalEntrySize
      raw  == Bytes(index_file_data_, cur_kv_base, kWalEntrySize)
      fail(st) == [status |-> st, itr |-> itr, cache |-> c, misses |-> 0]
      \* value_ lets go of the Blob it held, lazy_key of the key's Blob
      done(t, gk, gv) ==
        LET c2 == IF itr.value_entry # 0
                    THEN CacheRelease(gv.cache, itr.value_entry, kReleaseForceErase)
                    ELSE gv.cache
        IN  [status |-> "ok",
             itr |-> [itr EXCEPT !.iter_key_ = SetInternalKey(gk.slice, t.seq, t.type),
                                 !.value_ = gv.slice,
                                 !.value_entry = gv.entry],
             cache |-> CacheRelease(c2, gk.entry, kReleaseForceErase),
             misses |-> (IF gk.hit THEN 0 ELSE 1) + (IF gv.hit THEN 0 ELSE 1)]
      value(t, gk) ==
        IF gk.status # "ok" THEN fail(gk.status)
        ELSE IF Len(gk.slice) = 0 THEN fail("assert")
        ELSE CHOOSE f \in
               {IF gv.status # "ok" THEN fail(gv.status) ELSE done(t, gk, gv) :
                  gv \in {GetBlobOn(gk.cache, t.value_handle)}} : TRUE
      key(t) ==
        IF ~(t.type = kTypeMerge \/ t.type = kTypeValue) THEN fail("assert")
        ELSE CHOOSE f \in {value(t, gk) : gk \in {GetBlobOn(c, t.key_handle)}} : TRUE
  IN  IF Len(raw) < kWalEntrySize THEN fail("crash")
      ELSE CHOOSE f \in {key(t) : t \in {DecodeWalEntry(raw)}} : TRUE

\* whether Next compares the key it fetched with last_key_
ComparesWithLast(last_key) == last_key # << >>

\* the outcome of an iterator step that fetched f
AfterFetch(f, orderOk, itr) ==
  IF f.status # "ok"
    THEN /\ rstate' = "aborted"
         /\ it' = [itr EXCEPT !.failure = "fetch"]
         /\ UNCHANGED <<blob_cache_, reads>>
  ELSE IF ~orderOk
    THEN /\ rstate' = "aborted"
         /\ it' = [itr EXCEPT !.failure = "order"]
         /\ UNCHANGED <<blob_cache_, reads>>
  ELSE /\ rstate' = rstate
       /\ blob_cache_' = f.cache
       /\ reads' = reads + f.misses
       /\ it' = [f.itr EXCEPT !.yielded = Append(itr.yielded, f.itr.iter_key_)]

\* SeekToFirst(): i_ := 0, fetch
SeekToFirst ==
  /\ rstate = "running"
  /\ it.state = "ok"
  /\ it.seeks < MaxSeeks
  /\ \E itr \in {[it EXCEPT !.i_ = 0, !.seeks = it.seeks + 1,
                             !.yielded = << >>, !.compared = {}]} :
       IF Valid(itr)
         THEN \E f \in {FetchKV(itr, blob_cache_)} : AfterFetch(f, TRUE, itr)
         ELSE /\ it' = itr
              /\ UNCHANGED <<blob_cache_, reads, rstate>>
  /\ UNCHANGED <<bufs, calls>>
  /\ UNCHANGED <<index_file_, cf_indexes_, written, index_file_data_>>

\* the fetched key is the last key from now on
AssignLastKey(f, compared) ==
  IF f.status = "ok"
    THEN [f EXCEPT !.itr = [f.itr EXCEPT !.last_key_ = f.itr.iter_key_,
                                         !.compared = compared]]
    ELSE f

\* WalBlobIterator::Next(), called on a positioned, valid iterator
IterNext ==
  /\ rstate = "running"
  /\ it.state = "ok"
  /\ it.seeks > 0
  /\ Valid(it)
  /\ \E itr \in {[it EXCEPT !.i_ = it.i_ + 1]} :
       IF Valid(itr)
         THEN \E f \in {FetchKV(itr, blob_cache_)} :
                LET cmp  == ComparesWithLast(itr.last_key_)
                    ok   == ~cmp \/ f.status # "ok"
                            \/ InternalCompare(f.itr.iter_key_, itr.last_key_) > 0
                    compared == IF cmp THEN itr.compared \cup {itr.i_}
                                ELSE itr.compared
                IN  AfterFetch(AssignLastKey(f, compared), ok,
                               [itr EXCEPT !.compared = compared])
         ELSE /\ it' = itr
              /\ UNCHANGED <<blob_cache_, reads, rstate>>
  /\ UNCHANGED <<bufs, calls>>
  /\ UNCHANGED <<index_file_, cf_indexes_, written, index_file_data_>>

\* GetCFWalTupleOffsets reading before the start of the mapping is undefined:
\* the process faults, or the bytes it finds there end the lookup as "not
\* found, count 0" and the caller goes on with cf_offset = cf_entries = 0
OutOfBounds == {"fault", "empty"}

\* WalBlobReader::NewIteratorWithCF(cf_id): the index file is mapped once;
\* mapped says how many of the file's bytes the environment's Read returns,
\* oob what a read out of bounds does
NewIteratorWithCFDo(cf_id, mapped, oob) ==
  LET file_size == Len(index_file_)
      data == IF index_file_data_ = << >> THEN Bytes(index_file_, 0, mapped)
              ELSE index_file_data_
      d    == GetCFWalTupleOffsets(data, cf_id)
  IN  /\ index_file_data_' = data
      /\ IF Len(data) # file_size
           THEN /\ it' = [kNoIterator EXCEPT !.state = "error", !.cf_id = cf_id,
                                             !.failure = "Invalid file size"]
                /\ rstate' = rstate
         ELSE IF d.status = "crash" /\ oob = "empty"
           THEN /\ it' = NewWalBlobIterator(cf_id, 0, 0)
                /\ rstate' = rstate
         ELSE IF d.status # "ok"
           THEN /\ it' = [kNoIterator EXCEPT !.cf_id = cf_id, !.failure = "directory"]
                /\ rstate' = "aborted"
         ELSE IF d.cf_offset % kWalEntrySize # 0
           THEN /\ it' = [kNoIterator EXCEPT !.cf_id = cf_id, !.failure = "offset"]
                /\ rstate' = "aborted"
         ELSE /\ it' = NewWalBlobIterator(cf_id, d.cf_offset, d.cf_entries)
              /\ rstate' = rstate

\* ------------------------------------------------------ what the file holds
\* the fragment at header offset pos, decoded from the file's bytes
FragType(data, pos) == data[pos + 7]
FragLen(data, pos) == data[pos + 5] + 256 * data[pos + 6]
FragPayload(data, pos) == Bytes(data, pos + kHeaderSize, FragLen(data, pos))

RECURSIVE ConcatFrags(_, _, _)
ConcatFrags(data, frags, i) ==
  IF i > Len(frags) THEN << >>
  ELSE FragPayload(data, frags[i].pos) \o ConcatFrags(data, frags, i + 1)

TagsOf(data, frags) == [i \in 1..Len(frags) |-> FragType(data, frags[i].pos)]

\* FULL, or FIRST MIDDLE* LAST
WellTagged(tags) ==
  \/ tags = << kFullType >>
  \/ /\ Len(tags) >= 2
     /\ tags[1] = kFirstType
     /\ tags[Len(tags)] = kLastType
     /\ \A i \in 2..(Len(tags) - 1) : tags[i] = kMiddleType

\* the absolute offset of the record's first payload byte (of the end of its
\* only header when the payload is empty) and the offset just past its last
FirstPayloadOffset(r) ==
  LET withBytes == {i \in 1..Len(r.frags) : r.frags[i].n > 0}
      first == IF withBytes = {} THEN 1
               ELSE CHOOSE i \in withBytes : \A j \in withBytes : i <= j
  IN  r.frags[first].pos + kHeaderSize

EndOfPayload(r) ==
  LET last == r.frags[Len(r.frags)] IN last.pos + kHeaderSize + last.n

\* ------------------------------------------- GetBlob, thread by thread
Threads == {1, 2}

kIdle == [pc |-> "idle", k |-> 0, blob |-> << >>, entry |-> 0, slice |-> << >>]

\* lines 279-289: the lookup, and on a hit the reset of lazy_blob
ThreadLookup(t) ==
  /\ rstate = "running"
  /\ threads[t].pc = "lookup"
  /\ LET log_handle == HandleOfRec(threads[t].k)
         id == CacheLookup(blob_cache_, GenerateCacheUniqueId(log_handle))
     IN  IF id # 0
           THEN /\ blob_cache_' = CacheRef(blob_cache_, id)
                /\ threads' = [threads EXCEPT ![t].pc = "holding", ![t].entry = id,
                                              ![t].slice = blob_cache_[id].value]
           ELSE /\ threads' = [threads EXCEPT ![t].pc = "read"]
                /\ UNCHANGED blob_cache_
  /\ UNCHANGED <<bufs, calls, reads, rstate>>

\* lines 292-351: the read of the file, the checks and ShrinkVal
ThreadRead(t) ==
  /\ rstate = "running"
  /\ threads[t].pc = "read"
  /\ LET r == GetBlobMiss(FileOnDisk, HandleOfRec(threads[t].k))
     IN  /\ rstate' = IF r.status = "ok" THEN rstate ELSE "aborted"
         /\ threads' = [threads EXCEPT ![t].pc = "insert", ![t].blob = r.slice]
  /\ reads' = reads + 1
  /\ UNCHANGED <<blob_cache_, bufs, calls>>

\* lines 352-359: the insert, and the reset of lazy_blob
ThreadInsert(t) ==
  /\ rstate = "running"
  /\ threads[t].pc = "insert"
  /\ LET log_handle == HandleOfRec(threads[t].k)
         blob_uid   == GenerateCacheUniqueId(log_handle)
     IN  /\ blob_cache_' = CacheInsert(blob_cache_, InsertKey(blob_uid, log_handle),
                                       threads[t].blob)
         /\ threads' = [threads EXCEPT ![t].pc = "holding",
                                       ![t].entry = Len(blob_cache_) + 1,
                                       ![t].slice = threads[t].blob]
  /\ UNCHANGED <<bufs, calls, reads, rstate>>

\* the caller drops its LazyBuffer: release_cache
ThreadRelease(t) ==
  /\ rstate = "running"
  /\ threads[t].pc = "holding"
  /\ blob_cache_' = CacheRelease(blob_cache_, threads[t].entry, kReleaseForceErase)
  /\ threads' = [threads EXCEPT ![t].pc = "done"]
  /\ UNCHANGED <<bufs, calls, reads, rstate>>

\* ---------------------------------------------------------- specifications
vars == <<wvars, rvars, corrupted, ivars, threads, dtor_ops>>

IndexInit ==
  /\ index_file_ = << >>
  /\ cf_indexes_ = << >>
  /\ written = << >>
  /\ index_file_data_ = << >>
  /\ it = kNoIterator

\* the writer alone
Init ==
  /\ WriterInit
  /\ ReaderInit
  /\ IndexInit
  /\ threads = [t \in Threads |-> kIdle]
  /\ dtor_ops = << >>
Next ==
  \/ AddRecord /\ UNCHANGED <<rvars, corrupted, ivars, threads, dtor_ops>>
  \/ WriteBuffer /\ UNCHANGED <<rvars, corrupted, ivars, threads, dtor_ops>>
Spec == Init /\ [][Next]_vars

\* the writer w, and the history of its records, after one more AddRecord
WriteOne(w, slice) ==
  LET wr == [dest |-> w.dest, block_offset |-> w.block_offset,
             block_counts |-> w.block_counts, manual_flush |-> FALSE]
      r  == AddRecordFrom(wr, slice, kUnset, 0)
  IN  [dest |-> r.dest, block_offset |-> r.block_offset,
       block_counts |-> r.block_counts,
       recs |-> Append(w.recs, RecOf(wr, slice, r))]

\* a log file the writer has written the payloads ps to, one record each,
\* every one with its payload offset recorded
RECURSIVE WriteAll(_, _, _)
WriteAll(w, ps, i) ==
  IF i > Len(ps) THEN w
  ELSE CHOOSE x \in {WriteAll(w1, ps, i + 1) : w1 \in {WriteOne(w, ps[i])}} : TRUE

WrittenLog(ps) ==
  WriteAll([dest |-> [data |-> << >>, synced |-> 0], block_offset |-> 0,
            block_counts |-> 0, recs |-> << >>], ps, 1)

\* the writer's state after it wrote ps
LogHolds(ps) ==
  \E w \in {WrittenLog(ps)} :
    /\ dest_ = w.dest
    /\ block_offset_ = w.block_offset
    /\ block_counts_ = w.block_counts
    /\ recs = w.recs
    /\ num_entries_ = Len(ps)
    /\ manual_flush_ = FALSE

\* a reader on a log of two records
InitRead ==
  /\ \E len1 \in 0..MaxLen, len2 \in 0..MaxLen :
       LogHolds(<< PayloadOf(1, len1), PayloadOf(2, len2) >>)
  /\ ReaderInit
  /\ IndexInit
  /\ threads = [t \in Threads |-> kIdle]
  /\ dtor_ops = << >>
NextRead ==
  \/ GetBlob /\ UNCHANGED <<corrupted, ivars, threads, dtor_ops>>
  \/ Cleanup /\ UNCHANGED <<corrupted, ivars, threads, dtor_ops>>
  \/ Evict /\ UNCHANGED <<corrupted, ivars, threads, dtor_ops>>
SpecRead == InitRead /\ [][NextRead]_vars

\* the same reader on a log file one payload byte of which may change on disk
\* before the first read
NextCorrupt ==
  \/ Corrupt /\ UNCHANGED <<ivars, threads, dtor_ops>>
  \/ GetBlob /\ UNCHANGED <<corrupted, ivars, threads, dtor_ops>>
  \/ Cleanup /\ UNCHANGED <<corrupted, ivars, threads, dtor_ops>>
SpecCorrupt == InitRead /\ [][NextCorrupt]_vars

\* two threads call GetBlob with the handle of the same record
InitConc ==
  /\ \E len1 \in 0..MaxLen, len2 \in 0..MaxLen :
       LogHolds(<< PayloadOf(1, len1), PayloadOf(2, len2) >>)
  /\ ReaderInit
  /\ IndexInit
  /\ \E k \in Readable : threads = [t \in Threads |-> [kIdle EXCEPT !.pc = "lookup", !.k = k]]
  /\ dtor_ops = << >>
NextConc ==
  \/ \E t \in Threads : ThreadLookup(t) /\ UNCHANGED <<wvars, corrupted, ivars, dtor_ops>>
  \/ \E t \in Threads : ThreadRead(t) /\ UNCHANGED <<wvars, corrupted, ivars, dtor_ops>>
  \/ \E t \in Threads : ThreadInsert(t) /\ UNCHANGED <<wvars, corrupted, ivars, dtor_ops>>
  \/ \E t \in Threads : ThreadRelease(t) /\ UNCHANGED <<wvars, corrupted, ivars, dtor_ops>>
  \/ Evict /\ UNCHANGED <<corrupted, ivars, threads, dtor_ops>>
SpecConc == InitConc /\ [][NextConc]_vars

\* the index of a log of three keys and a value: the writer writes column
\* families and the footer, then a reader opens an iterator on one of them
KvPayloads == << <<10, 1>>, <<20, 1>>, <<30, 1>>, <<7, 8>> >>

\* the WalEntry of key record k: its handle, the value's handle, sequence k
KvHandle(k) == MakeHandle(FirstPayloadOffset(recs[k]), recs[k].payload)
TupleOf(k) ==
  [key_handle |-> KvHandle(k), value_handle |-> KvHandle(Len(recs)),
   seq |-> k, type |-> kTypeValue]

EntryLists ==
  { << >>,
    << TupleOf(1) >>,
    << TupleOf(1), TupleOf(2), TupleOf(3) >>,
    << TupleOf(2), TupleOf(1), TupleOf(3) >>,
    << TupleOf(1), TupleOf(3), TupleOf(2) >> }

CfIds == {1, 7}

FooterWritten ==
  \E i \in 1..Len(written) : written[i].op = "footer"

WriteCF ==
  /\ ~FooterWritten
  /\ Len(written) < MaxCfs
  /\ \E cf_id \in CfIds, sorted_entries \in EntryLists :
       WriteCFDo(cf_id, sorted_entries, 0)
  /\ UNCHANGED <<index_file_data_, it>>

WriteFooter ==
  /\ ~FooterWritten
  /\ WriteFooterDo(0)
  /\ UNCHANGED <<index_file_data_, it>>

NewIteratorWithCF ==
  /\ rstate = "running"
  /\ FooterWritten
  /\ it.state = "none"
  /\ \E cf_id \in CfIds, oob \in OutOfBounds :
       NewIteratorWithCFDo(cf_id, Len(index_file_), oob)
  /\ UNCHANGED <<blob_cache_, bufs, calls, reads>>
  /\ UNCHANGED <<index_file_, cf_indexes_, written>>

InitIndex ==
  /\ LogHolds(KvPayloads)
  /\ ReaderInit
  /\ IndexInit
  /\ threads = [t \in Threads |-> kIdle]
  /\ dtor_ops = << >>
NextIndex ==
  \/ WriteCF /\ UNCHANGED <<wvars, rvars, corrupted, threads, dtor_ops>>
  \/ WriteFooter /\ UNCHANGED <<wvars, rvars, corrupted, threads, dtor_ops>>
  \/ NewIteratorWithCF /\ UNCHANGED <<wvars, corrupted, threads, dtor_ops>>
  \/ SeekToFirst /\ UNCHANGED <<wvars, corrupted, threads, dtor_ops>>
  \/ IterNext /\ UNCHANGED <<wvars, corrupted, threads, dtor_ops>>
SpecIndex == InitIndex /\ [][NextIndex]_vars

\* the index file as a reader may find it: any prefix of the writer's calls
\* made (none, column families without a footer, all of it), and a Read
\* that may return one byte less than the file holds
MappedSizes == {Len(index_file_)} \cup {n \in {Len(index_file_) - 1} : n >= 0}

WriteCFBeforeOpen ==
  /\ it.cf_id = 0
  /\ WriteCF

WriteFooterBeforeOpen ==
  /\ it.cf_id = 0
  /\ WriteFooter

OpenIndex ==
  /\ rstate = "running"
  /\ it.cf_id = 0
  /\ \E cf_id \in CfIds, mapped \in MappedSizes, oob \in OutOfBounds :
       NewIteratorWithCFDo(cf_id, mapped, oob)
  /\ UNCHANGED <<blob_cache_, bufs, calls, reads>>
  /\ UNCHANGED <<index_file_, cf_indexes_, written>>

NextShort ==
  \/ WriteCFBeforeOpen /\ UNCHANGED <<wvars, rvars, corrupted, threads, dtor_ops>>
  \/ WriteFooterBeforeOpen /\ UNCHANGED <<wvars, rvars, corrupted, threads, dtor_ops>>
  \/ OpenIndex /\ UNCHANGED <<wvars, corrupted, threads, dtor_ops>>
SpecShort == InitIndex /\ [][NextShort]_vars

\* the three-block scenario: one record of up to kScenarioLen bytes on a
\* fresh writer
kScenarioLen == 3 * (kBlockSize - kHeaderSize) + 5

AddRecordOnce ==
  /\ recs = << >>
  /\ \E len \in 0..kScenarioLen, wt \in {kUnset, kNoWt} :
       AddRecordDo(PayloadOf(1, len), 1, wt, 0)

NextScenario ==
  \/ AddRecordOnce /\ UNCHANGED <<rvars, corrupted, ivars, threads, dtor_ops>>
  \/ WriteBuffer /\ UNCHANGED <<rvars, corrupted, ivars, threads, dtor_ops>>
SpecScenario == Init /\ [][NextScenario]_vars

\* the writer on a file whose calls may fail
IoLens == {0, kBlockSize - kHeaderSize, kBlockSize}

Failed == {k \in 1..Len(recs) : recs[k].s = "ioerror"}
Asserted == {k \in 1..Len(recs) : recs[k].s = "assert"}

\* AddRecord; its failAt-th file call fails (0, or more than it makes: none)
AddRecordIO ==
  /\ dtor_ops = << >>
  /\ Asserted = {}
  /\ Len(recs) < MaxRecords
  /\ \E len \in IoLens, wt \in {kUnset, kNoWt}, failAt \in 0..MaxFailAt :
       /\ failAt # 0 => Cardinality(Failed) < MaxFailures
       /\ AddRecordDo(PayloadOf(Len(recs) + 1, len), 1, wt, failAt)

\* Writer::~Writer() { WriteBuffer(); }
DestroyWriter ==
  /\ dtor_ops = << >>
  /\ Asserted = {}
  /\ \E ok \in BOOLEAN :
       /\ dest_' = FileFlush(dest_, ok)
       /\ dtor_ops' = << [op |-> "flush", ok |-> ok] >>
  /\ UNCHANGED <<block_offset_, block_counts_, num_entries_, manual_flush_, recs>>

NextIO ==
  \/ AddRecordIO /\ UNCHANGED <<rvars, corrupted, ivars, threads, dtor_ops>>
  \/ DestroyWriter /\ UNCHANGED <<rvars, corrupted, ivars, threads>>
SpecIO == Init /\ [][NextIO]_vars

\* ------------------------------------------------------------------ claims
\* C2: for every record the writer has added, GetPhysicalLength of its
\* length at the offset of its first payload byte equals the number of file
\* bytes from that byte to the record's last payload byte, the fragment
\* headers in between counted.
C2_PhysicalLengthMatchesWriter ==
  \A k \in 1..Len(recs) :
    LET r == recs[k] off == FirstPayloadOffset(r)
    IN  /\ r.payload # << >> => off % kBlockSize >= kHeaderSize
        /\ off % kBlockSize >= kHeaderSize =>
             GetPhysicalLength(Len(r.payload), off, kHeaderSize) = EndOfPayload(r) - off

\* a record of four fragments with a short tail, begun in the middle of a block
C2_Witness ==
  \E k \in 1..Len(recs) :
    /\ Len(recs[k].frags) >= 3
    /\ recs[k].frags[1].n > 0
    /\ recs[k].frags[1].block_offset > 0
    /\ recs[k].frags[Len(recs[k].frags)].n < kBlockSize - kHeaderSize

C4_HandleLegal ==
  \A k \in 1..Len(recs) :
    recs[k].wt >= 0 => recs[k].wt % kBlockSize >= kHeaderSize

\* an offset was recorded for a record added when exactly kHeaderSize bytes
\* were left in the block
C4_Witness ==
  \E k \in 1..Len(recs) :
    /\ recs[k].wt >= 0
    /\ recs[k].payload # << >>
    /\ recs[k].start % kBlockSize = kBlockSize - kHeaderSize

\* C10: the fragments of every record are tagged FULL or FIRST MIDDLE* LAST,
\* their payload slices concatenated are the payload, and an empty payload is
\* one FULL fragment of length 0.  The records' tag sequences lie one after
\* the other in the file, so no MIDDLE or LAST is without its open FIRST.
C10_FragmentTagging ==
  \A k \in 1..Len(recs) :
    LET r == recs[k] IN
      /\ WellTagged(TagsOf(dest_.data, r.frags))
      /\ ConcatFrags(dest_.data, r.frags, 1) = r.payload
      /\ r.payload = << >> =>
           (Len(r.frags) = 1 /\ FragLen(dest_.data, r.frags[1].pos) = 0)
      /\ r.frags[1].pos >= r.start
      /\ \A i \in 1..(Len(r.frags) - 1) :
           r.frags[i].pos + kHeaderSize + r.frags[i].n <= r.frags[i + 1].pos
      /\ k < Len(recs) => EndOfPayload(r) = recs[k + 1].start

\* an empty FULL, and after it a FIRST, a MIDDLE and a LAST
C10_Witness ==
  /\ \E k \in 1..Len(recs) : Len(recs[k].frags) >= 3
  /\ \E k \in 1..Len(recs) : recs[k].payload = << >>

\* the record's handle carries the offset of its first payload byte
HandleExact(k) == recs[k].wt = FirstPayloadOffset(recs[k])

\* C1: every cache-miss GetBlob that returns, called with the handle of a
\* written record (its payload offset, length and CRCs), returns exactly
\* the payload: its size and its bytes.
C1_RoundTrip ==
  \A c \in 1..Len(calls) :
    LET k == calls[c].k IN
      (/\ ~calls[c].hit
       /\ calls[c].status = "ok"
       /\ recs[k].payload # << >>
       /\ HandleExact(k))
      => calls[c].slice = recs[k].payload

\* C6: once a payload byte of a record of three or more fragments has changed
\* on disk, a cache-miss GetBlob with the record's handle fails.
C6_CorruptionDetected ==
  \A c \in 1..Len(calls) :
    LET k == calls[c].k IN
      (/\ ~calls[c].hit
       /\ Len(recs[k].frags) >= 3
       /\ HandleExact(k)
       /\ corrupted \in PayloadOffsets(recs[k]))
      => calls[c].status # "ok"

\* C7 as stated: two GetBlob calls with the same handle return the same
\* bytes, and at most one of them reads the file.
C7_IdempotentOneRead ==
  \A i \in 1..Len(calls), j \in 1..Len(calls) :
    (/\ i < j
     /\ calls[i].k = calls[j].k
     /\ calls[i].status = "ok" /\ calls[j].status = "ok")
    => /\ calls[i].slice = calls[j].slice
       /\ calls[i].hit \/ calls[j].hit

\* C7 as amended: two GetBlob calls with the same handle return the same
\* bytes; the later one is a cache hit, and reads nothing, unless the cache
\* evicted the entry of the earlier one in between, which it does not do
\* while a buffer returned for that handle is still held.
C7_Idempotent ==
  \A i \in 1..Len(calls), j \in 1..Len(calls) :
    (/\ i < j
     /\ calls[i].k = calls[j].k
     /\ calls[i].status = "ok" /\ calls[j].status = "ok")
    => /\ calls[i].slice = calls[j].slice
       /\ calls[j].hit \/ blob_cache_[calls[i].entry].evicted
       /\ calls[j].pinned => calls[j].hit
       /\ reads <= Cardinality({c \in 1..Len(calls) : ~calls[c].hit})

\* a record of several fragments was read from the file and then served from
\* the cache, the first buffer still held
C7_Witness ==
  \E i \in 1..Len(calls), j \in 1..Len(calls) :
    /\ i < j
    /\ calls[i].k = calls[j].k
    /\ ~calls[i].hit /\ calls[j].hit /\ calls[j].pinned
    /\ calls[i].status = "ok"
    /\ Len(recs[calls[i].k].frags) >= 2
    /\ reads = 1

\* the WriteCF calls made so far, as indexes into written
CfWrites == {i \in 1..Len(written) : written[i].op = "cf"}

\* the internal key the iterator owes for the tuple t
KeyOfTuple(t) == SetInternalKey(recs[t.seq].payload, t.seq, t.type)

\* C9: after successful WriteCF calls with pairwise distinct cf_ids and
\* WriteFooter, the directory lookup for every written cf_id returns the
\* index-file size at the start of its WriteCF and the number of tuples
\* passed to it, the tuple array there decodes to those tuples in the order
\* written, the footer count is the number of WriteCF calls, and what an
\* iterator on that cf_id has yielded are the keys of those tuples in order.
C9_IndexRoundTrip ==
  (/\ FooterWritten
   /\ \A i \in 1..Len(written) : written[i].status = "ok"
   /\ \A i, j \in CfWrites : i # j => written[i].cf_id # written[j].cf_id)
  => \A i \in CfWrites :
       LET w == written[i]
           d == GetCFWalTupleOffsets(index_file_, w.cf_id)
       IN  /\ d.status = "ok"
           /\ d.cf_offset = w.size_before
           /\ d.cf_entries = Len(w.entries)
           /\ d.count = Cardinality(CfWrites)
           /\ \A j \in 1..Len(w.entries) :
                DecodeWalEntry(Bytes(index_file_,
                                     d.cf_offset + (j - 1) * kWalEntrySize,
                                     kWalEntrySize)) = w.entries[j]
           /\ (it.state = "ok" /\ it.cf_id = w.cf_id) =>
                /\ it.cf_offset = w.size_before
                /\ it.cf_entries = Len(w.entries)
                /\ Len(it.yielded) <= Len(w.entries)
                /\ \A j \in 1..Len(it.yielded) :
                     it.yielded[j] = KeyOfTuple(w.entries[j])

\* cf 1 written with one tuple, then cf 7 with three, and the iterator on
\* cf 7 has walked all three
C9_Witness ==
  /\ FooterWritten
  /\ Len(written) = 3
  /\ written[1].cf_id = 1 /\ Len(written[1].entries) = 1
  /\ written[2].cf_id = 7 /\ Len(written[2].entries) = 3
  /\ rstate = "running"
  /\ it.state = "ok" /\ it.cf_id = 7
  /\ it.seeks = 1
  /\ Len(it.yielded) = 3
  /\ it.i_ = 3

\* C5: a traversal, SeekToFirst and then Next until Valid() is false, that
\* completes without an order-violation failure has yielded keys that are
\* strictly increasing under the internal comparator.
C5_IteratorOrder ==
  (/\ rstate = "running"
   /\ it.state = "ok"
   /\ it.seeks = 1
   /\ ~Valid(it)
   /\ Len(it.yielded) = it.cf_entries)
  => \A j \in 1..(Len(it.yielded) - 1) :
       InternalCompare(it.yielded[j + 1], it.yielded[j]) > 0

\* C8: whatever the interleaving of two GetBlob calls with the handle of one
\* record, the slice a caller holds equals the record's payload and its Blob
\* is not freed before that caller releases its handle.
C8_ConcurrentReaders ==
  \A t \in Threads :
    (/\ threads[t].pc = "holding"
     /\ recs[threads[t].k].payload # << >>
     /\ HandleExact(threads[t].k))
    => /\ threads[t].slice = recs[threads[t].k].payload
       /\ ~blob_cache_[threads[t].entry].freed

\* the fragment types of record k, read back from the file
TagsOfRec(k) == TagsOf(dest_.data, recs[k].frags)

\* C11 as stated: a record of 3 * (kBlockSize - kHeaderSize) + 5 bytes added
\* at block_offset_ 0 is three fragments FIRST, MIDDLE, LAST.
C11_ThreeFragments ==
  \A k \in 1..Len(recs) :
    (recs[k].start_offset = 0 /\ Len(recs[k].payload) = kScenarioLen)
    => TagsOfRec(k) = << kFirstType, kMiddleType, kLastType >>

\* C11 as amended: that record is four fragments FIRST, MIDDLE, MIDDLE, LAST
\* of kBlockSize - kHeaderSize, twice that and 5 bytes; GetBlob's head_size
\* for it is kBlockSize - kHeaderSize and its tail_size 5.  Three fragments
\* FIRST, MIDDLE, LAST with that head and tail are the record of
\* 2 * (kBlockSize - kHeaderSize) + 5 bytes.
C11_Scenario ==
  \A k \in 1..Len(recs) :
    LET r == recs[k]
        per_block == kBlockSize - kHeaderSize
        h == MakeHandle(FirstPayloadOffset(r), r.payload)
    IN  /\ (r.start_offset = 0 /\ Len(r.payload) = 3 * per_block + 5) =>
             /\ TagsOfRec(k) = << kFirstType, kMiddleType, kMiddleType, kLastType >>
             /\ [i \in 1..4 |-> r.frags[i].n] = << per_block, per_block, per_block, 5 >>
             /\ HeadSizeOf(h) = per_block
             /\ TailSizeOf(h) = 5
        /\ (r.start_offset = 0 /\ Len(r.payload) = 2 * per_block + 5) =>
             /\ TagsOfRec(k) = << kFirstType, kMiddleType, kLastType >>
             /\ HeadSizeOf(h) = per_block
             /\ TailSizeOf(h) = 5

C11_Witness ==
  /\ Len(recs) = 1
  /\ recs[1].start_offset = 0
  /\ Len(recs[1].payload) = kScenarioLen
  /\ recs[1].s = "ok"
  /\ Len(recs[1].frags) = 4

\* the bytes flushed before the k-th AddRecord call
SyncedBefore(k) == IF k = 1 THEN 0 ELSE recs[k - 1].synced

\* C12: with manual_flush_ false every fragment whose payload was appended is
\* followed at once by a Flush, and after a successful AddRecord every byte
\* of the file is flushed; with manual_flush_ true AddRecord makes no Flush
\* call and flushes nothing; ~Writer makes exactly one Flush call.
C12_AutoFlush ==
  /\ \A k \in 1..Len(recs) :
       LET r == recs[k] IN
         /\ ~r.manual_flush =>
              /\ \A i \in 1..Len(r.ops) :
                   (r.ops[i].op = "payload" /\ r.ops[i].ok) =>
                     (i < Len(r.ops) /\ r.ops[i + 1].op = "flush")
              /\ r.s = "ok" => r.synced = r.size
         /\ r.manual_flush =>
              /\ \A i \in 1..Len(r.ops) : r.ops[i].op # "flush"
              /\ r.synced = SyncedBefore(k)
  /\ dtor_ops # << >> =>
       /\ Len(dtor_ops) = 1
       /\ dtor_ops[1].op = "flush"
       /\ dtor_ops[1].ok => dest_.synced = Len(dest_.data)

\* a record of two fragments added with manual_flush_ false, then the writer
\* destroyed
C12_Witness ==
  /\ \E k \in 1..Len(recs) :
       /\ ~recs[k].manual_flush
       /\ recs[k].s = "ok"
       /\ Len(recs[k].frags) = 2
       /\ recs[k].size > 0
  /\ dtor_ops # << >>

\* the iterator was requested for a cf_id that no directory entry carries
CfNotFound ==
  /\ FooterWritten
  /\ it.cf_id # 0
  /\ \A i \in CfWrites : written[i].cf_id # it.cf_id

\* C13: NewIteratorWithCF for a cf_id that no directory entry carries gives
\* an empty iterator (not valid, nothing yielded) when the footer count is 0
\* and an error iterator carrying a corruption status when the footer count
\* is greater than 0.
C13_CfNotFound ==
  CfNotFound =>
    /\ Cardinality(CfWrites) = 0 =>
         (it.state = "ok" /\ ~Valid(it) /\ it.yielded = << >>)
    /\ Cardinality(CfWrites) > 0 =>
         (it.state = "error" /\ it.failure = "Corruption")

\* the mapped bytes are fewer than the footer, or than the footer and the
\* directory of as many entries as the footer counts
IndexTooShort(data) ==
  \/ Len(data) < kWalIndexFooterSize
  \/ DirectoryStart(Len(data),
       DecodeFixed(Bytes(data, Len(data) - kWalIndexFooterSize, 4))) < 0

\* C14: NewIteratorWithCF returns the error iterator carrying
\* IOError("Invalid file size") whenever the index file is shorter than its
\* footer and the directory the footer counts (a zero-length file included)
\* or the bytes mapped are not as many as the file size the environment
\* reports.
C14_ShortIndexFile ==
  (/\ it.cf_id # 0
   /\ \/ IndexTooShort(index_file_)
      \/ Len(index_file_data_) # Len(index_file_))
  => (it.state = "error" /\ it.failure = "Invalid file size")

\* C15: the payload offset AddRecord records in a writer handle that had
\* none is the absolute file offset at which the first payload byte of that
\* record is written, whatever the writer's block_offset_ was.
C15_RecordedOffset ==
  \A k \in 1..Len(recs) :
    (recs[k].wt >= 0 /\ recs[k].payload # << >>) => HandleExact(k)

\* the bytes the file calls ops[1..i] that succeeded handed to the file
RECURSIVE BytesAppended(_, _)
BytesAppended(ops, i) ==
  IF i = 0 THEN 0
  ELSE BytesAppended(ops, i - 1) + (IF ops[i].ok THEN ops[i].n ELSE 0)

\* C16: AddRecord returns a failing status exactly when one of its appends
\* (padding, header, payload) or its flush failed; the failed call is the
\* last file call AddRecord makes, so nothing is appended and no fragment is
\* emitted after it, and the file holds exactly the bytes of the appends
\* that succeeded before it.
C16_FailureAborts ==
  \A k \in 1..Len(recs) :
    LET r   == recs[k]
        bad == {i \in 1..Len(r.ops) : ~r.ops[i].ok}
    IN  r.s # "assert" =>
          /\ (r.s = "ioerror") <=> (bad # {})
          /\ bad # {} => bad = {Len(r.ops)}
          /\ r.size = r.start + BytesAppended(r.ops, Len(r.ops))
          /\ r.s = "ioerror" =>
               \A i \in 1..(Len(r.frags) - 1) :
                 r.frags[i].pos + kHeaderSize + r.frags[i].n <= r.size

\* a record that needs two fragments failed in its first: the second was
\* never emitted
C16_Witness ==
  \E k \in 1..Len(recs) :
    /\ recs[k].s = "ioerror"
    /\ Len(recs[k].frags) = 1
    /\ recs[k].frags[1].n < Len(recs[k].payload)

\* the file offset where what came before fragment i of record k ends, and
\* the bytes then left in that block
EndBefore(k, i) ==
  IF i = 1 THEN recs[k].start
  ELSE recs[k].frags[i - 1].pos + kHeaderSize + recs[k].frags[i - 1].n
LeftBefore(k, i) == (kBlockSize - (EndBefore(k, i) % kBlockSize)) % kBlockSize

\* C17: every fragment AddRecord emits lies within one block: block_offset_
\* at its emission plus kHeaderSize plus its payload length is at most
\* kBlockSize, and its length fits in two bytes; a fragment begins where the
\* bytes before it end, unless fewer than kHeaderSize bytes were left in the
\* block: then exactly those bytes are zeros and the fragment begins at
\* block offset 0 of the next block.
C17_NoStraddle ==
  \A k \in 1..Len(recs) :
    \A i \in 1..Len(recs[k].frags) :
      LET f    == recs[k].frags[i]
          left == LeftBefore(k, i)
      IN  /\ f.block_offset + kHeaderSize + f.n <= kBlockSize
          /\ f.n <= 65535
          /\ f.pos % kBlockSize = f.block_offset
          /\ f.pos \div kBlockSize = (f.pos + kHeaderSize + f.n - 1) \div kBlockSize
          /\ IF left < kHeaderSize
               THEN /\ f.pos = EndBefore(k, i) + left
                    /\ f.block_offset = 0
                    /\ Bytes(dest_.data, EndBefore(k, i), left) = Zeros(left)
               ELSE f.pos = EndBefore(k, i)

\* a record added when between 1 and kHeaderSize - 1 bytes were left in the
\* block: padding, then its fragment at block offset 0
C17_Witness ==
  \E k \in 1..Len(recs) :
    /\ LeftBefore(k, 1) \in 1..(kHeaderSize - 1)
    /\ recs[k].frags[1].block_offset = 0
    /\ recs[k].frags[1].pos = recs[k].start + LeftBefore(k, 1)
    /\ Len(recs[k].frags) >= 2

\* the returned buffers not yet cleaned up that hold a handle on entry id
HoldersOf(id) == {b \in 1..Len(bufs) : bufs[b].live /\ bufs[b].entry = id}

\* C18: every GetBlob that returned OK, hit or miss, left one buffer holding
\* one handle on a cache entry; the references of every entry are as many
\* as the buffers still holding it (a cleanup gives back exactly one, and
\* does not erase the entry); and an entry a buffer still points into is
\* not freed and still has the bytes the buffer shows.
C18_ReferenceBalance ==
  /\ \A id \in 1..Len(blob_cache_) :
       /\ blob_cache_[id].refs = Cardinality(HoldersOf(id))
       /\ HoldersOf(id) # {} => ~blob_cache_[id].freed
       /\ ~blob_cache_[id].in_table => blob_cache_[id].evicted
  /\ \A b \in 1..Len(bufs) :
       /\ bufs[b].entry \in 1..Len(blob_cache_)
       /\ bufs[b].live => blob_cache_[bufs[b].entry].value = bufs[b].slice
  /\ Len(bufs) = Cardinality({c \in 1..Len(calls) : calls[c].status = "ok"})
  /\ \A c \in 1..Len(calls) :
       calls[c].status = "ok" =>
         \E b \in 1..Len(bufs) : bufs[b].entry = calls[c].entry /\ bufs[b].k = calls[c].k

\* a miss and then a hit on the same record; the first buffer was cleaned
\* up, the second still holds the entry
C18_Witness ==
  /\ Len(calls) = 2 /\ Len(bufs) = 2
  /\ ~calls[1].hit /\ calls[2].hit
  /\ bufs[1].entry = bufs[2].entry
  /\ ~bufs[1].live /\ bufs[2].live
  /\ blob_cache_[bufs[2].entry].refs = 1
  /\ ~blob_cache_[bufs[2].entry].freed

\* the tuples' keys are strictly increasing under the internal comparator
StrictlyIncreasing(entries) ==
  \A j \in 1..(Len(entries) - 1) :
    InternalCompare(KeyOfTuple(entries[j + 1]), KeyOfTuple(entries[j])) > 0

\* C19: on a column family whose keys are strictly increasing, no sequence
\* of SeekToFirst and Next calls (Next only while Valid()) fails the order
\* assertion of Next.
C19_ReseekSorted ==
  (/\ it.cf_id # 0
   /\ \A i \in CfWrites :
        written[i].cf_id = it.cf_id => StrictlyIncreasing(written[i].entries))
  => it.failure # "order"

\* the AddRecord calls that failed at an append of a header or a payload
FailedAtFragment ==
  {k \in 1..Len(recs) :
     /\ recs[k].s = "ioerror"
     /\ recs[k].ops[Len(recs[k].ops)].op \in {"header", "payload"}}

\* C20: after an AddRecord that failed at an append of a header or of a
\* payload, block_counts_ and block_offset_ still describe the file:
\* GetFileSize() = block_counts_ * kBlockSize + block_offset_; and a later
\* AddRecord on the same writer does not find them disagreeing.
C20_AccountingAfterFailure ==
  /\ \A k \in FailedAtFragment :
       recs[k].size = recs[k].block_counts * kBlockSize + recs[k].block_offset
  /\ \A k \in 1..Len(recs) : recs[k].s # "assert"

====
